---- MODULE Spec2Model ----
(***************************************************************************)
(* nnabla C runtime: the ReLU operator's allocate / exec / free triplet    *)
(* (allocate_relu_local_context, exec_relu, free_relu_local_context) over  *)
(* rt_function_t invocation records and rt_variable_t variables, driven by *)
(* the context manager (load, allocate once, forward passes, teardown).    *)
(*                                                                         *)
(* Floats are modelled by the integers -MaxVal..MaxVal (sign and zero are  *)
(* what the kernel looks at).  A pointer to a float buffer is the id of    *)
(* the buffer; a pointer returned by malloc is the ordinal of the          *)
(* allocation (every allocation has its own identity), NULL is 0.          *)
(***************************************************************************)
EXTENDS Integers, Sequences, FiniteSets

\* ------------------------------------------------------------------ bounds
NumRecs == 2        \* invocation records in the network
MaxPasses == 2      \* forward passes the manager runs
MaxVal == 1         \* buffer elements range over -MaxVal..MaxVal

\* -------------------------------------------------------------- data model
NULL == 0

Recs == 1..NumRecs
Vars == {1, 2}
Bufs == Vars
Arities == {0, 1, 2}
Shapes == {<< >>, <<2>>, <<1, 2>>}
FloatVals == (0 - MaxVal)..MaxVal

MaxAllocs == NumRecs + 1
Addrs == 1..MaxAllocs

RT_FUNCTION_ERROR_NOERROR == "NOERROR"
RT_FUNCTION_ERROR_INVALID_NUM_OF_INPUTS == "INVALID_NUM_OF_INPUTS"
RT_FUNCTION_ERROR_INVALID_NUM_OF_OUTPUTS == "INVALID_NUM_OF_OUTPUTS"
RT_FUNCTION_ERROR_INVALID_SHAPE == "INVALID_SHAPE"
RT_FUNCTION_ERROR_MALLOC == "MALLOC"

\* int calc_shape_size(rt_list_t shape): product of the dimensions, 1 for [].
RECURSIVE calc_shape_size(_)
calc_shape_size(s) ==
  IF Len(s) = 0 THEN 1 ELSE Head(s) * calc_shape_size(Tail(s))

RECURSIVE MaxOf(_)
MaxOf(S) ==
  LET x == CHOOSE y \in S : TRUE
  IN IF S = {x} THEN x
     ELSE LET m == MaxOf(S \ {x}) IN IF x > m THEN x ELSE m

\* A variable's buffer holds as many elements as the largest shape has.
BufCap == MaxOf({calc_shape_size(s) : s \in Shapes})

VARIABLES
  shape,            \* rt_variable_t.shape, per variable
  data,             \* rt_variable_t.data, per variable: the buffer it points to
  mem,              \* contents of the float buffers
  num_of_inputs,    \* rt_function_t.num_of_inputs, per record
  inputs,           \* rt_function_t.inputs, per record: sequence of variables
  num_of_outputs,   \* rt_function_t.num_of_outputs
  outputs,          \* rt_function_t.outputs
  local_context,    \* rt_function_t.local_context: NULL or a malloc'ed address
  priv,             \* the relu_private_t stored at each address
  live,             \* addresses malloc'ed and not yet free'd
  nalloc,           \* number of successful malloc calls so far
  nfree,            \* per address, the number of free() calls on it
  phase,            \* context manager: "load", "allocate", "forward", "teardown", "done"
  pos,              \* context manager: the record the manager is at
  pass,             \* context manager: completed forward passes
  ret,              \* context manager: the status allocate returned, per record
  call,             \* the last call made: [op, rec, status]
  supplied,         \* buffer contents when the input data were last supplied
  last,             \* per record, input/output contents seen by its last exec
  nexec,            \* per record, exec calls since the input data were supplied
  shape_calcs,      \* calc_shape_size calls made by the last call
  context_private   \* per record, the private field of the pooling or
                    \* convolution context that f->local_context points to

vars == <<shape, data, mem, num_of_inputs, inputs, num_of_outputs, outputs,
          local_context, priv, live, nalloc, nfree, phase, pos, pass, ret,
          call, supplied, last, nexec, shape_calcs, context_private>>

varsVariables == <<shape, data>>
varsRecord == <<num_of_inputs, inputs, num_of_outputs, outputs>>
varsHeap == <<priv, live, nalloc, nfree>>
varsObserved == <<supplied, last, nexec>>

NoPrivate == [input |-> NULL, input_size |-> 0, output |-> NULL, output_size |-> 0]
NoCall == [op |-> "none", rec |-> 0, status |-> RT_FUNCTION_ERROR_NOERROR]
NoExec == [n |-> 0, in |-> << >>, out |-> << >>]
NotCalled == "NOT_CALLED"

\* The first n elements of buffer b.
Contents(m, b, n) == [i \in 1..n |-> m[b][i]]

\* ------------------------------------------------------------------- state
Init ==
  /\ shape \in [Vars -> Shapes]
  /\ data = [v \in Vars |-> v]
  /\ mem = [b \in Bufs |-> [i \in 1..BufCap |-> 0]]
  /\ num_of_inputs = [r \in Recs |-> 0]
  /\ inputs = [r \in Recs |-> << >>]
  /\ num_of_outputs = [r \in Recs |-> 0]
  /\ outputs = [r \in Recs |-> << >>]
  /\ local_context = [r \in Recs |-> NULL]
  /\ priv = [a \in Addrs |-> NoPrivate]
  /\ live = {}
  /\ nalloc = 0
  /\ nfree = [a \in Addrs |-> 0]
  /\ phase = "load"
  /\ pos = 1
  /\ pass = 0
  /\ ret = [r \in Recs |-> NotCalled]
  /\ call = NoCall
  /\ supplied = mem
  /\ last = [r \in Recs |-> NoExec]
  /\ nexec = [r \in Recs |-> 0]
  /\ shape_calcs = 0
  /\ context_private = [r \in Recs |-> NULL]

\* ------------------------------------------------- relu.c: the operator
Return(op, r, status) == call' = [op |-> op, rec |-> r, status |-> status]

\* The call made k calls of calc_shape_size.
ShapeCalcs(k) == shape_calcs' = k

\* malloc(sizeof(relu_private_t)): NULL, or a new allocation.
MallocResults == {NULL} \cup (IF nalloc < MaxAllocs THEN {nalloc + 1} ELSE {})

Malloc(p) ==
  /\ live' = (IF p = NULL THEN live ELSE live \cup {p})
  /\ nalloc' = (IF p = NULL THEN nalloc ELSE nalloc + 1)
  /\ UNCHANGED nfree

\* free(p): free(NULL) does nothing.
Free(p) ==
  /\ live' = live \ {p}
  /\ nfree' = [a \in Addrs |-> IF a = p THEN nfree[a] + 1 ELSE nfree[a]]
  /\ UNCHANGED <<nalloc, priv>>

\* Mutant: the input arity check only rejects a record without inputs.
InvalidNumOfInputs_lt(r) == num_of_inputs[r] < 1

\* if (f->num_of_inputs != 1)
InvalidNumOfInputs(r) == num_of_inputs[r] # 1

\* Mutant: the output arity check only rejects a record without outputs.
InvalidNumOfOutputs_lt(r) == num_of_outputs[r] < 1

\* if (f->num_of_outputs != 1)
InvalidNumOfOutputs(r) == num_of_outputs[r] # 1

\* Mutant: the result of malloc is not checked.
MallocFailed_unchecked(p) == FALSE

\* if (private == 0)
MallocFailed(p) == p = NULL

\* Mutant: input_size is computed from the output's shape.
relu_private_t_outshape(r) ==
  [input       |-> data[inputs[r][1]],
   input_size  |-> calc_shape_size(shape[outputs[r][1]]),
   output      |-> data[outputs[r][1]],
   output_size |-> calc_shape_size(shape[outputs[r][1]])]

\* private->input = ...; private->input_size = ...; private->output = ...;
\* private->output_size = ...
relu_private_t(r) ==
  [input       |-> data[inputs[r][1]],
   input_size  |-> calc_shape_size(shape[inputs[r][1]]),
   output      |-> data[outputs[r][1]],
   output_size |-> calc_shape_size(shape[outputs[r][1]])]

\* if (private->input_size != private->output_size)
InvalidShape(pv) == pv.input_size # pv.output_size

\* Mutant: allocate does nothing on a record that already holds a context.
allocate_relu_local_context_once(r) ==
  IF local_context[r] # NULL
  THEN /\ Return("allocate", r, RT_FUNCTION_ERROR_NOERROR)
       /\ ShapeCalcs(0)
       /\ UNCHANGED <<local_context, varsHeap>>
  ELSE
  IF InvalidNumOfInputs(r)
  THEN /\ Return("allocate", r, RT_FUNCTION_ERROR_INVALID_NUM_OF_INPUTS)
       /\ ShapeCalcs(0)
       /\ UNCHANGED <<local_context, varsHeap>>
  ELSE IF InvalidNumOfOutputs(r)
  THEN /\ Return("allocate", r, RT_FUNCTION_ERROR_INVALID_NUM_OF_OUTPUTS)
       /\ ShapeCalcs(0)
       /\ UNCHANGED <<local_context, varsHeap>>
  ELSE \E p \in MallocResults :
         /\ Malloc(p)
         /\ IF MallocFailed(p)
            THEN /\ Return("allocate", r, RT_FUNCTION_ERROR_MALLOC)
                 /\ ShapeCalcs(0)
                 /\ UNCHANGED <<local_context, priv>>
            ELSE /\ local_context' = [local_context EXCEPT ![r] = p]
                 /\ priv' = [a \in Addrs |->
                               IF a = p THEN relu_private_t(r) ELSE priv[a]]
                 /\ ShapeCalcs(2)
                 /\ IF InvalidShape(relu_private_t(r))
                    THEN Return("allocate", r, RT_FUNCTION_ERROR_INVALID_SHAPE)
                    ELSE Return("allocate", r, RT_FUNCTION_ERROR_NOERROR)

allocate_relu_local_context(r) ==
  IF InvalidNumOfInputs(r)
  THEN /\ Return("allocate", r, RT_FUNCTION_ERROR_INVALID_NUM_OF_INPUTS)
       /\ ShapeCalcs(0)
       /\ UNCHANGED <<local_context, varsHeap>>
  ELSE IF InvalidNumOfOutputs(r)
  THEN /\ Return("allocate", r, RT_FUNCTION_ERROR_INVALID_NUM_OF_OUTPUTS)
       /\ ShapeCalcs(0)
       /\ UNCHANGED <<local_context, varsHeap>>
  ELSE \E p \in MallocResults :
         /\ Malloc(p)
         /\ IF MallocFailed(p)
            THEN /\ Return("allocate", r, RT_FUNCTION_ERROR_MALLOC)
                 /\ ShapeCalcs(0)
                 /\ UNCHANGED <<local_context, priv>>
            ELSE /\ local_context' = [local_context EXCEPT ![r] = p]
                 /\ priv' = [a \in Addrs |->
                               IF a = p THEN relu_private_t(r) ELSE priv[a]]
                 /\ ShapeCalcs(2)
                 /\ IF InvalidShape(relu_private_t(r))
                    THEN Return("allocate", r, RT_FUNCTION_ERROR_INVALID_SHAPE)
                    ELSE Return("allocate", r, RT_FUNCTION_ERROR_NOERROR)

\* Mutant: free resets the record's pointer after releasing the context.
free_relu_local_context_clearing(r) ==
  /\ Free(local_context[r])
  /\ Return("free", r, RT_FUNCTION_ERROR_NOERROR)
  /\ ShapeCalcs(0)
  /\ local_context' = [local_context EXCEPT ![r] = NULL]

free_relu_local_context(r) ==
  /\ Free(local_context[r])
  /\ Return("free", r, RT_FUNCTION_ERROR_NOERROR)
  /\ ShapeCalcs(0)
  /\ UNCHANGED local_context

\* Mutant: the comparison is reversed.
relu_reversed(x) == IF x < 0 THEN x ELSE 0

\* Mutant: the sign of the positive branch is wrong.
relu_negated(x) == IF x > 0 THEN 0 - x ELSE 0

\* (x > 0.0f) ? x : 0.0f
relu(x) == IF x > 0 THEN x ELSE 0

\* Mutant: the element is added to the output instead of assigned.
Store_accumulate(m, out, i, y) == [m EXCEPT ![out][i + 1] = @ + y]

\* private->output[i] = ...
Store(m, out, i, y) == [m EXCEPT ![out][i + 1] = y]

\* Mutant: the loop stops one element early.
relu_loop_test_short(i, n) == i + 1 < n

\* i < private->output_size
relu_loop_test(i, n) == i < n

\* The number of times the loop body runs from index i on.
RECURSIVE relu_loop_iterations(_, _)
relu_loop_iterations(i, n) ==
  IF relu_loop_test(i, n) THEN 1 + relu_loop_iterations(i + 1, n) ELSE 0

\* for (i = 0; i < private->output_size; i++) { float x = private->input[i]; ... }
RECURSIVE relu_loop(_, _, _, _, _)
relu_loop(m, in, out, i, n) ==
  IF relu_loop_test(i, n)
  THEN relu_loop(Store(m, out, i, relu(m[in][i + 1])), in, out, i + 1, n)
  ELSE m

\* Mutant: exec allocates a scratch object on every call.
exec_relu_scratch(r) ==
  LET private == priv[local_context[r]]
  IN /\ mem' = relu_loop(mem, private.input, private.output, 0, private.output_size)
     /\ Return("exec", r, RT_FUNCTION_ERROR_NOERROR)
     /\ ShapeCalcs(0)
     /\ \E p \in MallocResults : Malloc(p)
     /\ UNCHANGED <<local_context, priv>>

\* Mutant: exec refuses to run in place and reports INVALID_SHAPE.
exec_relu_checked(r) ==
  LET private == priv[local_context[r]]
  IN /\ IF private.input = private.output
        THEN /\ mem' = mem
             /\ Return("exec", r, RT_FUNCTION_ERROR_INVALID_SHAPE)
        ELSE /\ mem' = relu_loop(mem, private.input, private.output, 0,
                                 private.output_size)
             /\ Return("exec", r, RT_FUNCTION_ERROR_NOERROR)
     /\ ShapeCalcs(0)
     /\ UNCHANGED <<local_context, varsHeap>>

\* Mutant: exec resolves the buffers and the count from the record's variables.
exec_relu_resolving(r) ==
  /\ mem' = relu_loop(mem, data[inputs[r][1]], data[outputs[r][1]], 0,
                      calc_shape_size(shape[outputs[r][1]]))
  /\ Return("exec", r, RT_FUNCTION_ERROR_NOERROR)
  /\ ShapeCalcs(0)
  /\ UNCHANGED <<local_context, varsHeap>>

exec_relu(r) ==
  LET private == priv[local_context[r]]
  IN /\ mem' = relu_loop(mem, private.input, private.output, 0, private.output_size)
     /\ Return("exec", r, RT_FUNCTION_ERROR_NOERROR)
     /\ ShapeCalcs(0)
     /\ UNCHANGED <<local_context, varsHeap>>

\* ------------------------------------------- the context manager's flow
\* The loader binds the record's inputs and outputs.
LoadFunction ==
  /\ phase = "load"
  /\ \E nin \in Arities, nout \in Arities :
       \E ins \in [1..nin -> Vars], outs \in [1..nout -> Vars] :
         /\ num_of_inputs' = [num_of_inputs EXCEPT ![pos] = nin]
         /\ inputs' = [inputs EXCEPT ![pos] = ins]
         /\ num_of_outputs' = [num_of_outputs EXCEPT ![pos] = nout]
         /\ outputs' = [outputs EXCEPT ![pos] = outs]
  /\ phase' = "allocate"
  /\ call' = [op |-> "load", rec |-> pos, status |-> RT_FUNCTION_ERROR_NOERROR]
  /\ ShapeCalcs(0)
  /\ UNCHANGED <<varsVariables, mem, local_context, varsHeap, pos, pass, ret,
                 varsObserved, context_private>>

\* The manager allocates the record's context once; a failure aborts the build.
Allocate ==
  /\ phase = "allocate"
  /\ allocate_relu_local_context(pos)
  /\ ret' = [ret EXCEPT ![pos] = call'.status]
  /\ IF call'.status # RT_FUNCTION_ERROR_NOERROR
     THEN phase' = "teardown" /\ pos' = 1
     ELSE IF pos = NumRecs
     THEN phase' = "forward" /\ pos' = 1
     ELSE phase' = "load" /\ pos' = pos + 1
  /\ UNCHANGED <<varsVariables, varsRecord, mem, pass, varsObserved,
                 context_private>>

\* The user supplies the data of a forward pass: rt_forward copies it into the
\* buffer of the network's input variable, the first record's input.
SetInput ==
  /\ phase = "forward"
  /\ pos = 1
  /\ pass < MaxPasses
  /\ \E x \in [1..BufCap -> FloatVals] :
       mem' = [mem EXCEPT ![data[inputs[1][1]]] = x]
  /\ supplied' = mem'
  /\ last' = [r \in Recs |-> NoExec]
  /\ nexec' = [r \in Recs |-> 0]
  /\ call' = [op |-> "input", rec |-> 0, status |-> RT_FUNCTION_ERROR_NOERROR]
  /\ ShapeCalcs(0)
  /\ UNCHANGED <<varsVariables, varsRecord, local_context, varsHeap, phase,
                 pos, pass, ret, context_private>>

\* One step of a forward pass: exec of the next record in graph order.
Forward ==
  /\ phase = "forward"
  /\ pass < MaxPasses
  /\ exec_relu(pos)
  /\ LET private == priv[local_context[pos]]
     IN last' = [last EXCEPT ![pos] =
                   [n   |-> private.output_size,
                    in  |-> Contents(mem, private.input, private.output_size),
                    out |-> Contents(mem', private.output, private.output_size)]]
  /\ nexec' = [nexec EXCEPT ![pos] = nexec[pos] + 1]
  /\ UNCHANGED supplied
  /\ IF pos = NumRecs
     THEN pos' = 1 /\ pass' = pass + 1
     ELSE pos' = pos + 1 /\ pass' = pass
  /\ UNCHANGED <<varsVariables, varsRecord, phase, ret, context_private>>

\* rt_free_context is called between forward passes.
BeginTeardown ==
  /\ phase = "forward"
  /\ pos = 1
  /\ phase' = "teardown"
  /\ call' = [op |-> "teardown", rec |-> 0, status |-> RT_FUNCTION_ERROR_NOERROR]
  /\ ShapeCalcs(0)
  /\ UNCHANGED <<varsVariables, varsRecord, mem, local_context, varsHeap, pos,
                 pass, ret, varsObserved, context_private>>

\* Teardown frees the context of a record whose allocate succeeded.
TeardownFree ==
  /\ phase = "teardown"
  /\ ret[pos] = RT_FUNCTION_ERROR_NOERROR
  /\ free_relu_local_context(pos)
  /\ IF pos = NumRecs THEN phase' = "done" /\ pos' = pos
                      ELSE phase' = phase /\ pos' = pos + 1
  /\ UNCHANGED <<varsVariables, varsRecord, mem, pass, ret, varsObserved,
                 context_private>>

\* Teardown passes over a record whose allocate failed or was never called.
TeardownSkip ==
  /\ phase = "teardown"
  /\ ret[pos] # RT_FUNCTION_ERROR_NOERROR
  /\ call' = [op |-> "skip", rec |-> pos, status |-> RT_FUNCTION_ERROR_NOERROR]
  /\ IF pos = NumRecs THEN phase' = "done" /\ pos' = pos
                      ELSE phase' = phase /\ pos' = pos + 1
  /\ ShapeCalcs(0)
  /\ UNCHANGED <<varsVariables, varsRecord, mem, local_context, varsHeap, pass,
                 ret, varsObserved, context_private>>

Next ==
  \/ LoadFunction
  \/ Allocate
  \/ SetInput
  \/ Forward
  \/ BeginTeardown
  \/ TeardownFree
  \/ TeardownSkip

Spec == Init /\ [][Next]_vars

\* ---------------------------------------------------------------- claims
\* The manager is about to call allocate on record r.
AtAllocate(r) == phase = "allocate" /\ pos = r

\* The manager is about to call exec on record r (the step is an exec when
\* call'.op = "exec").
AtExec(r) == phase = "forward" /\ pos = r /\ pass < MaxPasses

ArityValid(r) == num_of_inputs[r] = 1 /\ num_of_outputs[r] = 1
InputSize(r) == calc_shape_size(shape[inputs[r][1]])
OutputSize(r) == calc_shape_size(shape[outputs[r][1]])
InputBuf(r) == data[inputs[r][1]]
OutputBuf(r) == data[outputs[r][1]]

Returned(op, r, status) == call = [op |-> op, rec |-> r, status |-> status]

\* C1: allocate on a record with num_of_inputs # 1 returns INVALID_NUM_OF_INPUTS,
\* whatever num_of_outputs and the shapes are; no private context is allocated
\* and local_context is unchanged.
C1_InvalidNumOfInputs ==
  [][\A r \in Recs :
       (AtAllocate(r) /\ num_of_inputs[r] # 1)
         => /\ Returned("allocate", r, RT_FUNCTION_ERROR_INVALID_NUM_OF_INPUTS)'
            /\ local_context' = local_context
            /\ live' = live /\ nalloc' = nalloc /\ priv' = priv]_vars

\* C1 witness: allocate was called with 2 inputs bound (1 output, equal sizes)
\* and returned INVALID_NUM_OF_INPUTS with nothing stored.
C1_Witness ==
  /\ Returned("allocate", 1, RT_FUNCTION_ERROR_INVALID_NUM_OF_INPUTS)
  /\ num_of_inputs[1] = 2 /\ num_of_outputs[1] = 1
  /\ InputSize(1) = OutputSize(1)
  /\ local_context[1] = NULL /\ live = {} /\ nalloc = 0

\* C2: allocate on a record with num_of_inputs = 1 and num_of_outputs # 1 returns
\* INVALID_NUM_OF_OUTPUTS; no private context is allocated and local_context is
\* unchanged.
C2_InvalidNumOfOutputs ==
  [][\A r \in Recs :
       (AtAllocate(r) /\ num_of_inputs[r] = 1 /\ num_of_outputs[r] # 1)
         => /\ Returned("allocate", r, RT_FUNCTION_ERROR_INVALID_NUM_OF_OUTPUTS)'
            /\ local_context' = local_context
            /\ live' = live /\ nalloc' = nalloc /\ priv' = priv]_vars

\* C2 witness: allocate was called with 1 input and 2 outputs and returned
\* INVALID_NUM_OF_OUTPUTS with nothing stored.
C2_Witness ==
  /\ Returned("allocate", 1, RT_FUNCTION_ERROR_INVALID_NUM_OF_OUTPUTS)
  /\ num_of_inputs[1] = 1 /\ num_of_outputs[1] = 2
  /\ local_context[1] = NULL /\ live = {} /\ nalloc = 0

\* C3: when the input element count differs from the output element count,
\* allocate fails (INVALID_SHAPE, or MALLOC when the allocation itself fails)
\* before any context is stored: the record's context pointer has the value it
\* had before the call.
C3_ShapeMismatchStoresNoContext ==
  [][\A r \in Recs :
       (AtAllocate(r) /\ ArityValid(r) /\ InputSize(r) # OutputSize(r))
         => /\ call'.status \in {RT_FUNCTION_ERROR_INVALID_SHAPE,
                                 RT_FUNCTION_ERROR_MALLOC}
            /\ local_context'[r] = local_context[r]]_vars

\* C4: when malloc fails in allocate (arity being valid) the call returns MALLOC
\* and the record stays unallocated: local_context and the stored private
\* contexts are unchanged.
C4_MallocFailure ==
  [][\A r \in Recs :
       (AtAllocate(r) /\ ArityValid(r) /\ nalloc' = nalloc)
         => /\ Returned("allocate", r, RT_FUNCTION_ERROR_MALLOC)'
            /\ local_context' = local_context
            /\ live' = live /\ priv' = priv]_vars

\* C4 witness: allocate on a record of valid arity returned MALLOC and the record
\* has no context.
C4_Witness ==
  /\ Returned("allocate", 1, RT_FUNCTION_ERROR_MALLOC)
  /\ ArityValid(1)
  /\ local_context[1] = NULL /\ live = {} /\ nalloc = 0

\* C5: allocate returns NOERROR exactly when num_of_inputs = 1, num_of_outputs = 1,
\* malloc succeeds and input size = output size; then exactly one private
\* context is allocated, it is the record's local_context, and it holds the
\* input/output data pointers and the element counts of the bound variables.
C5_AllocateSuccess ==
  [][\A r \in Recs :
       AtAllocate(r)
         => /\ call'.op = "allocate" /\ call'.rec = r
            /\ (call'.status = RT_FUNCTION_ERROR_NOERROR)
                 <=> (/\ ArityValid(r)
                      /\ nalloc' = nalloc + 1
                      /\ InputSize(r) = OutputSize(r))
            /\ (call'.status = RT_FUNCTION_ERROR_NOERROR)
                 => (/\ nalloc' = nalloc + 1
                     /\ local_context'[r] \notin live
                     /\ live' = live \cup {local_context'[r]}
                     /\ \A q \in Recs \ {r} : local_context'[q] = local_context[q]
                     /\ priv'[local_context'[r]] =
                          [input       |-> InputBuf(r),
                           input_size  |-> InputSize(r),
                           output      |-> OutputBuf(r),
                           output_size |-> OutputSize(r)])]_vars

\* C5 witness: allocate returned NOERROR on the second record, whose context is
\* the second allocation and caches a 2-element input and output.
C5_Witness ==
  /\ Returned("allocate", 2, RT_FUNCTION_ERROR_NOERROR)
  /\ local_context[2] = 2 /\ live = {1, 2}
  /\ priv[2].input_size = 2 /\ priv[2].output_size = 2
  /\ priv[2].input # priv[2].output

\* The step about to be taken from AtExec(r) is the exec call itself.
ExecStep(r) == AtExec(r) /\ call'.op = "exec" /\ call'.rec = r

\* relu as the specification states it: x if x > 0, else 0.
Rectified(x) == IF x > 0 THEN x ELSE 0
RectifiedSeq(s) == [i \in DOMAIN s |-> Rectified(s[i])]

\* C6: after exec_relu on a Ready record with distinct input and output
\* buffers, output[i] = input[i] if input[i] > 0 and 0 otherwise, for every i in
\* [0, size).
C6_ExecRelu ==
  [][\A r \in Recs :
       (ExecStep(r) /\ InputBuf(r) # OutputBuf(r))
         => \A i \in 1..OutputSize(r) :
              mem'[OutputBuf(r)][i] =
                (IF mem[InputBuf(r)][i] > 0 THEN mem[InputBuf(r)][i] ELSE 0)]_vars

\* C6 witness: record 1 mapped <<-1, 1>> to <<0, 1>> and record 2 mapped
\* <<0, 1>> to <<0, 1>>, each between distinct buffers.
C6_Witness ==
  /\ Returned("exec", 2, RT_FUNCTION_ERROR_NOERROR)
  /\ InputBuf(1) # OutputBuf(1) /\ InputBuf(2) # OutputBuf(2)
  /\ last[1].in = <<0 - 1, 1>> /\ last[1].out = <<0, 1>>
  /\ last[2].in = <<0, 1>> /\ last[2].out = <<0, 1>>
  /\ Contents(mem, OutputBuf(2), 2) = <<0, 1>>

\* C7: ReLU is idempotent: exec_relu applied to the output of an exec_relu call
\* yields that output again, element by element.
C7_Idempotent ==
  [][\A q, r \in Recs :
       (/\ ExecStep(r)
        /\ call.op = "exec" /\ call.rec = q
        /\ InputBuf(r) = OutputBuf(q)
        /\ OutputSize(r) = last[q].n)
         => Contents(mem', OutputBuf(r), OutputSize(r)) = last[q].out]_vars

\* C7 witness: record 1 mapped <<-1, 1>> to <<0, 1>> in another buffer and
\* record 2, run next on that output, wrote <<0, 1>> again, out of place.
C7_Witness ==
  /\ Returned("exec", 2, RT_FUNCTION_ERROR_NOERROR)
  /\ nexec[1] = 1 /\ nexec[2] = 1
  /\ InputBuf(1) # OutputBuf(1) /\ InputBuf(2) = OutputBuf(1)
  /\ OutputBuf(2) # InputBuf(2)
  /\ last[1].in = <<0 - 1, 1>>
  /\ last[2].in = last[1].out /\ last[2].out = last[1].out

\* Every record that writes buffer b works in place on b.
OnlyInPlaceWriters(b) ==
  \A q \in Recs : (ArityValid(q) /\ OutputBuf(q) = b) => InputBuf(q) = b

\* C8: in-place ReLU: when a record's input and output share one buffer, the
\* contents after one exec and after two execs are the same, namely relu of the
\* contents the buffer had when the data were supplied.
C8_InPlaceTwice ==
  \A r \in Recs :
    (/\ nexec[r] >= 1
     /\ InputBuf(r) = OutputBuf(r)
     /\ OnlyInPlaceWriters(OutputBuf(r)))
      => Contents(mem, OutputBuf(r), OutputSize(r))
           = RectifiedSeq(Contents(supplied, OutputBuf(r), OutputSize(r)))

\* C8 witness: record 1 ran twice in place on a buffer supplied as <<-1, 1>>.
C8_Witness ==
  /\ nexec[1] = 2
  /\ InputBuf(1) = OutputBuf(1)
  /\ OnlyInPlaceWriters(OutputBuf(1))
  /\ Contents(supplied, OutputBuf(1), 2) = <<0 - 1, 1>>
  /\ Contents(mem, OutputBuf(1), 2) = <<0, 1>>
  /\ OutputSize(1) = 2

\* C9: exec_relu can be called repeatedly on a Ready record: a call that finds
\* the input contents of the record's previous call produces the output contents
\* of that call, and no call allocates or releases a private context.
C9_ExecRepeatable ==
  [][\A r \in Recs :
       ExecStep(r)
         => /\ live' = live /\ nalloc' = nalloc /\ nfree' = nfree
            /\ priv' = priv /\ local_context' = local_context
            /\ (/\ nexec[r] >= 1
                /\ Contents(mem, InputBuf(r), OutputSize(r)) = last[r].in)
                 => Contents(mem', OutputBuf(r), OutputSize(r)) = last[r].out]_vars

\* C9 witness: record 1 ran twice on the unchanged input <<-1, 1>>, writing
\* <<0, 1>> to another buffer, and both contexts are still allocated.
C9_Witness ==
  /\ Returned("exec", 1, RT_FUNCTION_ERROR_NOERROR)
  /\ nexec[1] = 2
  /\ InputBuf(1) # OutputBuf(1)
  /\ Contents(supplied, InputBuf(1), 2) = <<0 - 1, 1>>
  /\ last[1].in = <<0 - 1, 1>> /\ last[1].out = <<0, 1>>
  /\ live = {1, 2} /\ nalloc = 2

\* The three states of a record, read off the record and the heap.
Unallocated(r) == local_context[r] = NULL
Ready(r) == local_context[r] # NULL /\ local_context[r] \in live
Freed(r) == local_context[r] # NULL /\ local_context[r] \notin live

\* C10: every record follows Unallocated -> Ready -> Freed: only a successful
\* allocate moves Unallocated to Ready, a failed allocate leaves it Unallocated,
\* exec keeps it Ready, free moves Ready to Freed, Freed is terminal, and exec is
\* never run on a record that is Unallocated or Freed.
C10_Lifecycle ==
  [][\A r \in Recs :
       /\ (Unallocated(r) /\ ~Unallocated(r)')
            => (Ready(r)' /\ Returned("allocate", r, RT_FUNCTION_ERROR_NOERROR)')
       /\ (AtAllocate(r) /\ Unallocated(r)
             /\ call'.status # RT_FUNCTION_ERROR_NOERROR)
            => Unallocated(r)'
       /\ (ExecStep(r) /\ Ready(r)) => Ready(r)'
       /\ (Ready(r) /\ ~Ready(r)')
            => (Freed(r)' /\ Returned("free", r, RT_FUNCTION_ERROR_NOERROR)')
       /\ Freed(r) => Freed(r)'
       /\ ExecStep(r) => Ready(r)]_vars

\* C11: the heap is balanced: no private context is freed twice, a freed one is
\* no longer live, and once teardown has finished every private context ever
\* allocated has been freed exactly once, also when an allocate failed with
\* INVALID_SHAPE or MALLOC.
C11_HeapBalanced ==
  /\ \A a \in Addrs : nfree[a] <= 1 /\ (nfree[a] = 1 => a \notin live)
  /\ phase = "done" => (live = {} /\ \A a \in 1..nalloc : nfree[a] = 1)

\* The statuses that report a failure.
ErrorStatuses ==
  {RT_FUNCTION_ERROR_INVALID_NUM_OF_INPUTS,
   RT_FUNCTION_ERROR_INVALID_NUM_OF_OUTPUTS,
   RT_FUNCTION_ERROR_INVALID_SHAPE,
   RT_FUNCTION_ERROR_MALLOC}

\* C12: exec returns NOERROR, on every Ready record and whatever the input
\* holds; INVALID_NUM_OF_INPUTS, INVALID_NUM_OF_OUTPUTS, INVALID_SHAPE and MALLOC
\* are returned by allocate only.
C12_ExecNeverFails ==
  /\ call.op = "exec" => call.status = RT_FUNCTION_ERROR_NOERROR
  /\ call.status \in ErrorStatuses => call.op = "allocate"

\* C12 witness: an in-place record whose buffer was supplied with a negative and
\* a positive element has been executed and returned NOERROR, in a network
\* whose other record was allocated too.
C12_Witness ==
  /\ Returned("exec", 1, RT_FUNCTION_ERROR_NOERROR)
  /\ InputBuf(1) = OutputBuf(1) /\ OutputSize(1) = 2
  /\ supplied[InputBuf(1)] = <<0 - 1, 1>>
  /\ mem[OutputBuf(1)] = <<0, 1>>
  /\ \A r \in Recs : Ready(r)

\* ------------------------------------------- sum_pooling.c: the operator
\* The sum_pooling_local_context_t the loader made for record r: its address
\* lies outside the addresses malloc hands out for private contexts.
ContextOf(r) == MaxAllocs + r

\* A windowed record as the loader leaves it: f->local_context points at the
\* operator's context, whose private field is not set yet.
InitWindowed ==
  /\ shape \in [Vars -> Shapes]
  /\ data = [v \in Vars |-> v]
  /\ mem = [b \in Bufs |-> [i \in 1..BufCap |-> 0]]
  /\ num_of_inputs = [r \in Recs |-> 0]
  /\ inputs = [r \in Recs |-> << >>]
  /\ num_of_outputs = [r \in Recs |-> 0]
  /\ outputs = [r \in Recs |-> << >>]
  /\ local_context = [r \in Recs |-> ContextOf(r)]
  /\ priv = [a \in Addrs |-> NoPrivate]
  /\ live = {}
  /\ nalloc = 0
  /\ nfree = [a \in Addrs |-> 0]
  /\ phase = "load"
  /\ pos = 1
  /\ pass = 0
  /\ ret = [r \in Recs |-> NotCalled]
  /\ call = NoCall
  /\ supplied = mem
  /\ last = [r \in Recs |-> NoExec]
  /\ nexec = [r \in Recs |-> 0]
  /\ shape_calcs = 0
  /\ context_private = [r \in Recs |-> NULL]

\* The process was stopped by a signal inside the call.
Crashed == "SIGSEGV"

\* What a store through a null private pointer can do: stop the process, or
\* carry on and return any status.
NullStoreResults ==
  {Crashed, RT_FUNCTION_ERROR_NOERROR} \cup ErrorStatuses

\* allocate_pooling(f, context, private): the results it can return. It
\* validates the arity, then the window geometry against the shapes (the
\* verdict depends on the pooling configuration, which is not modelled), then
\* caches the derived sizes through the private pointer.
allocate_pooling(r, private) ==
  IF num_of_inputs[r] # 1
  THEN {RT_FUNCTION_ERROR_INVALID_NUM_OF_INPUTS}
  ELSE IF num_of_outputs[r] # 1
  THEN {RT_FUNCTION_ERROR_INVALID_NUM_OF_OUTPUTS}
  ELSE {RT_FUNCTION_ERROR_INVALID_SHAPE}
         \cup (IF private = NULL THEN NullStoreResults
                                 ELSE {RT_FUNCTION_ERROR_NOERROR})

\* The cached geometry of a pooling record.
pooling_private_t(r) ==
  [input       |-> data[inputs[r][1]],
   input_size  |-> calc_shape_size(shape[inputs[r][1]]),
   output      |-> data[outputs[r][1]],
   output_size |-> calc_shape_size(shape[outputs[r][1]])]

\* Mutant: the private pointer is stored only when the helper succeeded.
StorePrivate_on_success(r, private, status) ==
  context_private' =
    (IF status = RT_FUNCTION_ERROR_NOERROR
     THEN [context_private EXCEPT ![r] = private]
     ELSE context_private)

\* ((sum_pooling_local_context_t *)(f->local_context))->private = private;
StorePrivate(r, private, status) ==
  context_private' = [context_private EXCEPT ![r] = private]

\* Mutant: a failed malloc returns MALLOC before the helper is called.
HelperResults_checked(r, private) ==
  IF private = NULL THEN {RT_FUNCTION_ERROR_MALLOC}
                    ELSE allocate_pooling(r, private)

\* ret = allocate_pooling(f, (pooling_context_t *)context, private);
HelperResults(r, private) == allocate_pooling(r, private)

allocate_sum_pooling_local_context(r) ==
  \E private \in MallocResults :
    /\ Malloc(private)
    /\ \E status \in HelperResults(r, private) :
         /\ call' = [op |-> "allocate", rec |-> r, status |-> status,
                     private |-> private]
         /\ priv' = [a \in Addrs |->
                       IF a = private /\ status = RT_FUNCTION_ERROR_NOERROR
                       THEN pooling_private_t(r) ELSE priv[a]]
         /\ IF status = Crashed
            THEN UNCHANGED context_private
            ELSE StorePrivate(r, private, status)
    /\ ShapeCalcs(0)   \* sum_pooling.c itself never calls calc_shape_size
    /\ UNCHANGED local_context

\* free_pooling(private): releases the private context.
free_pooling(private) == Free(private)

free_sum_pooling_local_context(r) ==
  /\ free_pooling(context_private[r])
  /\ call' = [op |-> "free", rec |-> r,
              status |-> RT_FUNCTION_ERROR_NOERROR,
              private |-> context_private[r]]
  /\ ShapeCalcs(0)
  /\ UNCHANGED <<local_context, context_private>>

\* ------------------------------ the context manager on sum pooling records
\* The manager allocates the record's context once; a failure aborts the build.
PoolAllocate ==
  /\ phase = "allocate"
  /\ allocate_sum_pooling_local_context(pos)
  /\ ret' = [ret EXCEPT ![pos] = call'.status]
  /\ IF call'.status = Crashed
     THEN phase' = "done" /\ pos' = pos
     ELSE IF call'.status # RT_FUNCTION_ERROR_NOERROR
     THEN phase' = "teardown" /\ pos' = 1
     ELSE IF pos = NumRecs
     THEN phase' = "forward" /\ pos' = 1
     ELSE phase' = "load" /\ pos' = pos + 1
  /\ UNCHANGED <<varsVariables, varsRecord, mem, pass, varsObserved>>

\* Teardown frees the context of a record whose allocate succeeded.
PoolTeardownFree ==
  /\ phase = "teardown"
  /\ ret[pos] = RT_FUNCTION_ERROR_NOERROR
  /\ free_sum_pooling_local_context(pos)
  /\ IF pos = NumRecs THEN phase' = "done" /\ pos' = pos
                      ELSE phase' = phase /\ pos' = pos + 1
  /\ UNCHANGED <<varsVariables, varsRecord, mem, pass, ret, varsObserved>>

\* exec_pooling(f, context, private, calc_func): the statuses the shared kernel
\* can return; it reads the cached geometry through the private pointer. Its
\* arithmetic is not under src/: the buffers are left as they are.
exec_pooling(r, context, private, reducer) ==
  IF private = NULL
  THEN NullStoreResults
  ELSE {RT_FUNCTION_ERROR_NOERROR} \cup ErrorStatuses

\* Mutant: the reducer of average pooling is passed.
SumPoolingReducer_average == "calc_average"

\* The reducer exec_sum_pooling passes: calc_sum.
SumPoolingReducer == "calc_sum"

\* return exec_pooling(f, (pooling_context_t *)context, private, calc_sum);
exec_sum_pooling(r) ==
  LET context == local_context[r]
      private == context_private[r]
  IN /\ \E status \in exec_pooling(r, context, private, SumPoolingReducer) :
          call' = [op |-> "exec", rec |-> r, status |-> status,
                   invoked |-> <<[func |-> "exec_pooling", rec |-> r,
                                  context |-> context, private |-> private,
                                  reducer |-> SumPoolingReducer,
                                  status |-> status]>>]
     /\ ShapeCalcs(0)
     /\ UNCHANGED <<mem, local_context, context_private, varsHeap>>

\* One step of a forward pass: exec of the next record in graph order.
PoolForward ==
  /\ phase = "forward"
  /\ pass < MaxPasses
  /\ exec_sum_pooling(pos)
  /\ IF call'.status = Crashed
     THEN phase' = "done" /\ pos' = pos /\ pass' = pass
     ELSE /\ phase' = phase
          /\ IF pos = NumRecs
             THEN pos' = 1 /\ pass' = pass + 1
             ELSE pos' = pos + 1 /\ pass' = pass
  /\ UNCHANGED <<varsVariables, varsRecord, ret, varsObserved>>

NextPool ==
  \/ LoadFunction
  \/ PoolAllocate
  \/ PoolForward
  \/ BeginTeardown
  \/ PoolTeardownFree
  \/ TeardownSkip

SpecPool == InitWindowed /\ [][NextPool]_vars

\* C13: when malloc fails in allocate_sum_pooling_local_context the call returns
\* MALLOC without running the shared helper on the null private pointer, and
\* stores nothing: the private pointers of the records' contexts are unchanged.
C13_PoolMallocFailure ==
  [][\A r \in Recs :
       (AtAllocate(r) /\ nalloc' = nalloc)
         => /\ call'.status = RT_FUNCTION_ERROR_MALLOC
            /\ context_private' = context_private]_vars

\* C14: when the shared pooling helper reports an error, that error is returned
\* and the private pointer of the record's context keeps the value it had
\* before the call.
C14_PoolHelperError ==
  [][\A r \in Recs :
       (AtAllocate(r) /\ call'.status \in ErrorStatuses)
         => /\ ret'[r] = call'.status
            /\ context_private'[r] = context_private[r]]_vars

\* ------------------------------------- arithmetic.c: the scalar utility
\* The binary operators handed to calc_scalar as calc_func.
CalcFuncs == {"calc_add", "calc_sub"}

\* The scalar operands tried.
ScalarVals == {0 - 1, 2}

\* calc_func(a, b) for each of the operators.
calc_func(fn, a, b) == IF fn = "calc_add" THEN a + b ELSE a - b

\* Mutant: the scalar is passed as the first operand.
ScalarElement_swapped(fn, x, value) == calc_func(fn, value, x)

\* calc_func(input[i], value)
ScalarElement(fn, x, value) == calc_func(fn, x, value)

\* Mutant: the loop bound is taken from the input's shape.
calc_scalar_out_size_of_input(r) == calc_shape_size(shape[inputs[r][1]])

\* int out_size = calc_shape_size(f->outputs[0]->shape);
calc_scalar_out_size(r) == calc_shape_size(shape[outputs[r][1]])

\* Mutant: the output element is first set to the scalar and then combined with
\* the input element.
RECURSIVE calc_scalar_loop_staged(_, _, _, _, _, _, _)
calc_scalar_loop_staged(m, input, output, fn, value, i, n) ==
  IF i < n
  THEN LET staged == Store(m, output, i, value)
       IN calc_scalar_loop_staged(
            Store(staged, output, i,
                  calc_func(fn, staged[input][i + 1], staged[output][i + 1])),
            input, output, fn, value, i + 1, n)
  ELSE m

\* for (i = 0; i < out_size; i++) { output[i] = calc_func(input[i], value); }
RECURSIVE calc_scalar_loop(_, _, _, _, _, _, _)
calc_scalar_loop(m, input, output, fn, value, i, n) ==
  IF i < n
  THEN calc_scalar_loop(
         Store(m, output, i, ScalarElement(fn, m[input][i + 1], value)),
         input, output, fn, value, i + 1, n)
  ELSE m

calc_scalar(r, value, fn) ==
  LET out_size == calc_scalar_out_size(r)
      input == data[inputs[r][1]]
      output == data[outputs[r][1]]
  IN /\ mem' = calc_scalar_loop(mem, input, output, fn, value, 0, out_size)
     /\ call' = [op |-> "calc_scalar", rec |-> r, status |-> "void",
                 value |-> value, func |-> fn, out_size |-> out_size]
     /\ ShapeCalcs(1)
     /\ UNCHANGED <<local_context, varsHeap>>

\* ------------------------------- the operator functions called on a record
\* A record bound to one input and one output variable, with data in the
\* input's buffer, before any call.
InitCalls ==
  /\ shape \in [Vars -> Shapes]
  /\ data = [v \in Vars |-> v]
  /\ \E i \in Vars, o \in Vars :
       /\ num_of_inputs = [r \in Recs |-> IF r = 1 THEN 1 ELSE 0]
       /\ inputs = [r \in Recs |-> IF r = 1 THEN <<i>> ELSE << >>]
       /\ num_of_outputs = [r \in Recs |-> IF r = 1 THEN 1 ELSE 0]
       /\ outputs = [r \in Recs |-> IF r = 1 THEN <<o>> ELSE << >>]
       /\ \E x \in [1..BufCap -> FloatVals] :
            mem = [b \in Bufs |-> IF b = data[i] THEN x
                                  ELSE [k \in 1..BufCap |-> 0]]
  /\ local_context = [r \in Recs |-> NULL]
  /\ priv = [a \in Addrs |-> NoPrivate]
  /\ live = {}
  /\ nalloc = 0
  /\ nfree = [a \in Addrs |-> 0]
  /\ phase = "calls"
  /\ pos = 1
  /\ pass = 0
  /\ ret = [r \in Recs |-> NotCalled]
  /\ call = NoCall
  /\ supplied = mem
  /\ last = [r \in Recs |-> NoExec]
  /\ nexec = [r \in Recs |-> 0]
  /\ shape_calcs = 0
  /\ context_private = [r \in Recs |-> NULL]

\* allocate_relu_local_context(f) on a record without context.
CallAllocate(r) ==
  /\ phase = "calls"
  /\ local_context[r] = NULL
  /\ allocate_relu_local_context(r)
  /\ ret' = [ret EXCEPT ![r] = call'.status]
  /\ UNCHANGED <<varsVariables, varsRecord, mem, phase, pos, pass,
                 varsObserved, context_private>>

\* exec_relu(f) on a record whose allocate succeeded and that is not freed.
CallExec(r) ==
  /\ phase = "calls"
  /\ ret[r] = RT_FUNCTION_ERROR_NOERROR
  /\ local_context[r] \in live
  /\ nexec[r] < MaxPasses
  /\ exec_relu(r)
  /\ nexec' = [nexec EXCEPT ![r] = nexec[r] + 1]
  /\ UNCHANGED <<varsVariables, varsRecord, phase, pos, pass, ret, supplied,
                 last, context_private>>

\* calc_scalar(f, value, calc_func) on a record whose input buffer holds at
\* least as many elements as the output's shape asks for.
CallCalcScalar(r) ==
  /\ phase = "calls"
  /\ num_of_inputs[r] >= 1 /\ num_of_outputs[r] >= 1
  /\ calc_shape_size(shape[inputs[r][1]])
       >= calc_shape_size(shape[outputs[r][1]])
  /\ nexec[r] < MaxPasses
  /\ \E value \in ScalarVals, fn \in CalcFuncs : calc_scalar(r, value, fn)
  /\ nexec' = [nexec EXCEPT ![r] = nexec[r] + 1]
  /\ UNCHANGED <<varsVariables, varsRecord, phase, pos, pass, ret, supplied,
                 last, context_private>>

\* free_relu_local_context(f) on a record whose allocate succeeded and that is
\* not freed.
CallFree(r) ==
  /\ phase = "calls"
  /\ ret[r] = RT_FUNCTION_ERROR_NOERROR
  /\ local_context[r] \in live
  /\ free_relu_local_context(r)
  /\ UNCHANGED <<varsVariables, varsRecord, mem, phase, pos, pass, ret,
                 varsObserved, context_private>>

NextCalls ==
  \/ CallAllocate(1)
  \/ CallExec(1)
  \/ CallCalcScalar(1)
  \/ CallFree(1)

SpecCalls == InitCalls /\ [][NextCalls]_vars

\* The step is a call of calc_scalar on record r.
CalcScalarStep(r) == call'.op = "calc_scalar" /\ call'.rec = r

\* C15: calc_scalar leaves output[i] = calc_func(input[i], value) for every i
\* below n, the element count of the first output's shape, the buffer element
\* being the first operand and the scalar the second; no element at an index
\* from n on, and no other buffer, is written.
C15_CalcScalar ==
  [][\A r \in Recs :
       CalcScalarStep(r)
         => LET n == OutputSize(r)
                fn == call'.func
                value == call'.value
            IN /\ \A i \in 1..n :
                    mem'[OutputBuf(r)][i]
                      = calc_func(fn, mem[InputBuf(r)][i], value)
               /\ \A b \in Bufs, i \in 1..BufCap :
                    (b # OutputBuf(r) \/ i > n) => mem'[b][i] = mem[b][i]]_vars

\* C15 witness: calc_scalar subtracted 2 from the one element of a [] output,
\* reading an input <<1, -1>> of another buffer, and left the output's second
\* element alone.
C15_Witness ==
  /\ call.op = "calc_scalar" /\ call.rec = 1
  /\ call.func = "calc_sub" /\ call.value = 2
  /\ shape[outputs[1][1]] = << >> /\ shape[inputs[1][1]] = <<2>>
  /\ InputBuf(1) # OutputBuf(1)
  /\ mem[InputBuf(1)] = <<1, 0 - 1>>
  /\ mem[OutputBuf(1)] = <<0 - 1, 0>>
  /\ nexec[1] = 1

\* C16: no execution path recomputes shapes: a call of exec_relu or of
\* calc_scalar makes no shape-size computation.
C16_NoShapeRecomputation ==
  call.op \in {"exec", "calc_scalar"} => shape_calcs = 0

\* The product of the dimensions of shape s, from the last one down; 1 for [].
RECURSIVE DimProduct(_, _)
DimProduct(s, k) == IF k = 0 THEN 1 ELSE DimProduct(s, k - 1) * s[k]

\* C18: the element counts allocate_relu_local_context caches and the count
\* calc_scalar uses are the products of all the dimensions of the variable's
\* shape, 1 for the shape [].
C18_ElementCounts ==
  /\ \A r \in Recs :
       local_context[r] \in live
         => /\ priv[local_context[r]].input_size
                 = DimProduct(shape[inputs[r][1]], Len(shape[inputs[r][1]]))
            /\ priv[local_context[r]].output_size
                 = DimProduct(shape[outputs[r][1]], Len(shape[outputs[r][1]]))
  /\ call.op = "calc_scalar"
       => call.out_size = DimProduct(shape[outputs[call.rec][1]],
                                     Len(shape[outputs[call.rec][1]]))

\* C18 witness: a record from a [1, 2] input to a [2] output has its context
\* allocated, caching 2 and 2, and calc_scalar ran on it over 2 elements.
C18_Witness ==
  /\ shape[inputs[1][1]] = <<1, 2>> /\ shape[outputs[1][1]] = <<2>>
  /\ ret[1] = RT_FUNCTION_ERROR_NOERROR /\ local_context[1] \in live
  /\ priv[local_context[1]].input_size = 2
  /\ priv[local_context[1]].output_size = 2
  /\ call.op = "calc_scalar" /\ call.out_size = 2

\* ------------------------------------------- convolution.c: the operator
\* The slots of the record's inputs and outputs that the operator uses.
X == 0
WEIGHT == 1
BIAS == 2
Y0 == 0
ALPHA == 0 - 1

\* The kernels the common helper chooses from, stored as private->exec.
ConvStrategies == {"exec_convolution_im2col", "exec_convolution_direct"}

\* The statuses a kernel, being an rt_function_error_t function, can return.
StrategyResults == {RT_FUNCTION_ERROR_NOERROR} \cup ErrorStatuses

\* allocate_convolution_local_context_common(f, x, weight, bias, alpha, y0),
\* returning status: validates that the x, weight and y0 slots are bound (the
\* bias slot is optional), then the geometry (its verdict depends on the
\* convolution configuration, which is not modelled), allocates the private
\* context, chooses the kernel and stores the context.
allocate_convolution_local_context_common(r, x, weight, bias, alpha, y0, status) ==
  LET Fail(s) == status = s /\ UNCHANGED <<priv, context_private>>
  IN IF num_of_inputs[r] <= weight
     THEN /\ Fail(RT_FUNCTION_ERROR_INVALID_NUM_OF_INPUTS)
          /\ UNCHANGED <<live, nalloc, nfree>>
     ELSE IF num_of_outputs[r] <= y0
     THEN /\ Fail(RT_FUNCTION_ERROR_INVALID_NUM_OF_OUTPUTS)
          /\ UNCHANGED <<live, nalloc, nfree>>
     ELSE \/ /\ Fail(RT_FUNCTION_ERROR_INVALID_SHAPE)
             /\ UNCHANGED <<live, nalloc, nfree>>
          \/ \E private \in MallocResults :
               /\ Malloc(private)
               /\ IF private = NULL
                  THEN Fail(RT_FUNCTION_ERROR_MALLOC)
                  ELSE \E fn \in ConvStrategies :
                         /\ priv' = [priv EXCEPT ![private] =
                                       [exec   |-> fn,
                                        input  |-> data[inputs[r][x + 1]],
                                        weight |-> data[inputs[r][weight + 1]],
                                        output |-> data[outputs[r][y0 + 1]]]]
                         /\ context_private' =
                              [context_private EXCEPT ![r] = private]
                         /\ status = RT_FUNCTION_ERROR_NOERROR

\* Mutant: the weight and bias slots are exchanged.
ConvSlots_exchanged ==
  [x |-> X, weight |-> BIAS, bias |-> WEIGHT, alpha |-> ALPHA, y0 |-> Y0]

\* The arguments (f, X, WEIGHT, BIAS, ALPHA, Y0) of the call of the helper.
ConvSlots ==
  [x |-> X, weight |-> WEIGHT, bias |-> BIAS, alpha |-> ALPHA, y0 |-> Y0]

\* return allocate_convolution_local_context_common(f, X, WEIGHT, BIAS, ALPHA,
\* Y0);
allocate_convolution_local_context(r) ==
  /\ \E status \in StrategyResults :
       /\ allocate_convolution_local_context_common(
            r, ConvSlots.x, ConvSlots.weight, ConvSlots.bias, ConvSlots.alpha,
            ConvSlots.y0, status)
       /\ call' = [op |-> "allocate", rec |-> r, status |-> status,
                   helper |->
                     [func |-> "allocate_convolution_local_context_common",
                      rec |-> r, args |-> ConvSlots, status |-> status]]
  /\ ShapeCalcs(0)   \* convolution.c itself never calls calc_shape_size
  /\ UNCHANGED local_context

\* free_convolution_local_context_common(f), returning status: releases the
\* private context.
free_convolution_local_context_common(r, status) ==
  /\ Free(context_private[r])
  /\ status = RT_FUNCTION_ERROR_NOERROR

\* return free_convolution_local_context_common(f);
free_convolution_local_context(r) ==
  /\ \E status \in StrategyResults :
       /\ free_convolution_local_context_common(r, status)
       /\ call' = [op |-> "free", rec |-> r, status |-> status,
                   helper |->
                     [func |-> "free_convolution_local_context_common",
                      rec |-> r, status |-> status]]
  /\ ShapeCalcs(0)
  /\ UNCHANGED <<local_context, context_private>>

\* Mutant: the kernel is called a second time when it reports a failure.
IndirectCalls_retried(r, results) ==
  LET private == priv[context_private[r]]
  IN IF results[1] = RT_FUNCTION_ERROR_NOERROR
     THEN <<[func |-> private.exec, rec |-> r, status |-> results[1]]>>
     ELSE <<[func |-> private.exec, rec |-> r, status |-> results[1]],
            [func |-> private.exec, rec |-> r, status |-> results[2]]>>

\* ...->private))->exec(f): the calls made through the stored pointer, given
\* what the kernel returns on its first and on a further call.
IndirectCalls(r, results) ==
  LET private == priv[context_private[r]]
  IN <<[func |-> private.exec, rec |-> r, status |-> results[1]]>>

\* Mutant: the kernel's status is dropped and NOERROR returned.
ReturnOf_dropped(invoked) == RT_FUNCTION_ERROR_NOERROR

\* return ...->exec(f);
ReturnOf(invoked) == invoked[Len(invoked)].status

\* The kernel's arithmetic is not under src/: the buffers are left as they are.
exec_convolution(r) ==
  /\ \E results \in [1..2 -> StrategyResults] :
       LET invoked == IndirectCalls(r, results)
       IN call' = [op |-> "exec", rec |-> r, status |-> ReturnOf(invoked),
                   invoked |-> invoked]
  /\ ShapeCalcs(0)
  /\ UNCHANGED <<mem, local_context, context_private, varsHeap>>

\* --------------------------- the convolution functions called on a record
\* A record as the loader leaves it: inputs and outputs bound,
\* f->local_context pointing at the operator's context, no private context.
InitConv ==
  /\ shape \in [Vars -> Shapes]
  /\ data = [v \in Vars |-> v]
  /\ mem = [b \in Bufs |-> [i \in 1..BufCap |-> 0]]
  /\ \E nin \in Arities, nout \in Arities :
       \E ins \in [1..nin -> Vars], outs \in [1..nout -> Vars] :
         /\ num_of_inputs = [r \in Recs |-> IF r = 1 THEN nin ELSE 0]
         /\ inputs = [r \in Recs |-> IF r = 1 THEN ins ELSE << >>]
         /\ num_of_outputs = [r \in Recs |-> IF r = 1 THEN nout ELSE 0]
         /\ outputs = [r \in Recs |-> IF r = 1 THEN outs ELSE << >>]
  /\ local_context = [r \in Recs |-> ContextOf(r)]
  /\ priv = [a \in Addrs |-> NoPrivate]
  /\ live = {}
  /\ nalloc = 0
  /\ nfree = [a \in Addrs |-> 0]
  /\ phase = "calls"
  /\ pos = 1
  /\ pass = 0
  /\ ret = [r \in Recs |-> NotCalled]
  /\ call = NoCall
  /\ supplied = mem
  /\ last = [r \in Recs |-> NoExec]
  /\ nexec = [r \in Recs |-> 0]
  /\ shape_calcs = 0
  /\ context_private = [r \in Recs |-> NULL]

\* allocate_convolution_local_context(f), called once on the record.
ConvAllocate(r) ==
  /\ ret[r] = NotCalled
  /\ allocate_convolution_local_context(r)
  /\ ret' = [ret EXCEPT ![r] = call'.status]
  /\ UNCHANGED <<varsVariables, varsRecord, mem, phase, pos, pass,
                 varsObserved>>

\* exec_convolution(f) on a record whose allocate succeeded and that is not
\* freed.
ConvExec(r) ==
  /\ ret[r] = RT_FUNCTION_ERROR_NOERROR
  /\ context_private[r] \in live
  /\ nexec[r] < MaxPasses
  /\ exec_convolution(r)
  /\ nexec' = [nexec EXCEPT ![r] = nexec[r] + 1]
  /\ UNCHANGED <<varsVariables, varsRecord, phase, pos, pass, ret, supplied,
                 last>>

\* free_convolution_local_context(f) on a record whose allocate succeeded and
\* that is not freed.
ConvFree(r) ==
  /\ ret[r] = RT_FUNCTION_ERROR_NOERROR
  /\ context_private[r] \in live
  /\ free_convolution_local_context(r)
  /\ UNCHANGED <<varsVariables, varsRecord, mem, phase, pos, pass, ret,
                 varsObserved>>

NextConv ==
  \/ ConvAllocate(1)
  \/ ConvExec(1)
  \/ ConvFree(1)

SpecConv == InitConv /\ [][NextConv]_vars

\* C17: exec_convolution is a single indirect call: it makes exactly one call,
\* of the kernel stored in the record's private context, passes it the same
\* record, and returns the kernel's status unchanged.
C17_SingleIndirectCall ==
  call.op = "exec"
    => /\ Len(call.invoked) = 1
       /\ call.invoked[1].func \in ConvStrategies
       /\ call.invoked[1].func = priv[context_private[call.rec]].exec
       /\ call.invoked[1].rec = call.rec
       /\ call.status = call.invoked[1].status

\* C17 witness: the second exec_convolution on a record called the im2col
\* kernel stored at its allocation, which failed, and returned that failure.
C17_Witness ==
  /\ call.op = "exec" /\ call.rec = 1 /\ nexec[1] = 2
  /\ num_of_inputs[1] = 2 /\ num_of_outputs[1] = 1
  /\ priv[context_private[1]].exec = "exec_convolution_im2col"
  /\ call.invoked = <<[func |-> "exec_convolution_im2col", rec |-> 1,
                       status |-> RT_FUNCTION_ERROR_INVALID_SHAPE]>>
  /\ call.status = RT_FUNCTION_ERROR_INVALID_SHAPE

\* --------------------------------------------- runtime.h: the context API
MaxRank == 2
MaxDim == 3

\* The shapes a network variable is given when the API is examined: every
\* list of at most MaxRank dimensions, each from 1 to MaxDim.
ApiShapes == UNION {[1..n -> 1..MaxDim] : n \in 0..MaxRank}

\* A context whose variables have their shapes; no buffer is touched through
\* the shape queries.
InitApi ==
  /\ shape \in [Vars -> ApiShapes]
  /\ data = [v \in Vars |-> v]
  /\ mem = [b \in Bufs |-> [i \in 1..BufCap |-> 0]]
  /\ num_of_inputs = [r \in Recs |-> 0]
  /\ inputs = [r \in Recs |-> << >>]
  /\ num_of_outputs = [r \in Recs |-> 0]
  /\ outputs = [r \in Recs |-> << >>]
  /\ local_context = [r \in Recs |-> NULL]
  /\ priv = [a \in Addrs |-> NoPrivate]
  /\ live = {}
  /\ nalloc = 0
  /\ nfree = [a \in Addrs |-> 0]
  /\ phase = "api"
  /\ pos = 1
  /\ pass = 0
  /\ ret = [r \in Recs |-> NotCalled]
  /\ call = NoCall
  /\ supplied = mem
  /\ last = [r \in Recs |-> NoExec]
  /\ nexec = [r \in Recs |-> 0]
  /\ shape_calcs = 0
  /\ context_private = [r \in Recs |-> NULL]

\* The variable behind the index-th input, and the index-th output, of the
\* network: the inputs are listed in variable order, the outputs in reverse.
InputVariable(index) == index + 1
OutputVariable(index) == Cardinality(Vars) - index

\* rt_list_t: int size; int *data;
rt_list_size(s) == Len(s)
rt_list_data(s, k) == s[k + 1]

\* Mutant: the size returned is the number of dimensions.
rt_input_size_rank(index) == rt_list_size(shape[InputVariable(index)])

\* int rt_input_size(context, index): the same as the product of the data
\* counts of all the dimensions.
rt_input_size(index) == calc_shape_size(shape[InputVariable(index)])

\* int rt_input_dimension(context, index)
rt_input_dimension(index) == rt_list_size(shape[InputVariable(index)])

\* int rt_input_shape(context, index, shape_index)
rt_input_shape(index, shape_index) ==
  rt_list_data(shape[InputVariable(index)], shape_index)

\* int rt_output_size(context, index)
rt_output_size(index) == calc_shape_size(shape[OutputVariable(index)])

\* int rt_output_dimension(context, index)
rt_output_dimension(index) == rt_list_size(shape[OutputVariable(index)])

\* int rt_output_shape(context, index, shape_index)
rt_output_shape(index, shape_index) ==
  rt_list_data(shape[OutputVariable(index)], shape_index)

\* The declaration of rt_error_enum_t: the enumerators in order, each with
\* its initializer if it has one.
rt_error_enum_t ==
  <<[name |-> "RT_ERROR_VERSION_UNMATCH", init |-> <<0 - 899>>],
    [name |-> "RT_ERROR_ALLOCATE_CONTEXT", init |-> << >>],
    [name |-> "RT_ERROR_INVALID_BUFFER_INDEX", init |-> << >>],
    [name |-> "RT_ERROR_INIT_VARIABLE", init |-> << >>],
    [name |-> "RT_ERROR_UNKNOWN_FUNCTION", init |-> << >>],
    [name |-> "RT_ERROR_NOERROR", init |-> <<0>>]>>

\* Mutant: an enumerator without initializer is one less than the one before.
RECURSIVE EnumValue_descending(_)
EnumValue_descending(k) ==
  IF rt_error_enum_t[k].init # << >> THEN rt_error_enum_t[k].init[1]
  ELSE IF k = 1 THEN 0
  ELSE EnumValue_descending(k - 1) - 1

\* The value of the k-th enumerator: its initializer, or else one more than
\* the enumerator before it (0 for the first).
RECURSIVE EnumValue(_)
EnumValue(k) ==
  IF rt_error_enum_t[k].init # << >> THEN rt_error_enum_t[k].init[1]
  ELSE IF k = 1 THEN 0
  ELSE EnumValue(k - 1) + 1

\* The user asks for the size, the dimension and each dimension's extent of
\* an input of the network.
QueryInput ==
  /\ \E index \in 0..(Cardinality(Vars) - 1) :
       call' = [op |-> "rt_input", index |-> index,
                size |-> rt_input_size(index),
                dimension |-> rt_input_dimension(index),
                shape |-> [d \in 0..(rt_input_dimension(index) - 1) |->
                             rt_input_shape(index, d)]]
  /\ UNCHANGED <<varsVariables, varsRecord, mem, local_context, varsHeap,
                 phase, pos, pass, ret, varsObserved, shape_calcs,
                 context_private>>

\* The same for an output of the network.
QueryOutput ==
  /\ \E index \in 0..(Cardinality(Vars) - 1) :
       call' = [op |-> "rt_output", index |-> index,
                size |-> rt_output_size(index),
                dimension |-> rt_output_dimension(index),
                shape |-> [d \in 0..(rt_output_dimension(index) - 1) |->
                             rt_output_shape(index, d)]]
  /\ UNCHANGED <<varsVariables, varsRecord, mem, local_context, varsHeap,
                 phase, pos, pass, ret, varsObserved, shape_calcs,
                 context_private>>

\* A function of the API returns one of the rt_error_enum_t statuses.
ReturnStatus ==
  /\ \E k \in 1..Len(rt_error_enum_t) :
       call' = [op |-> "rt_status", name |-> rt_error_enum_t[k].name,
                status |-> EnumValue(k)]
  /\ UNCHANGED <<varsVariables, varsRecord, mem, local_context, varsHeap,
                 phase, pos, pass, ret, varsObserved, shape_calcs,
                 context_private>>

NextApi ==
  \/ QueryInput
  \/ QueryOutput
  \/ ReturnStatus

SpecApi == InitApi /\ [][NextApi]_vars

\* The product of extent[0] .. extent[k - 1].
RECURSIVE ExtentProduct(_, _)
ExtentProduct(extent, k) ==
  IF k = 0 THEN 1 ELSE ExtentProduct(extent, k - 1) * extent[k - 1]

\* C19: rt_input_size(context, index) is the product of
\* rt_input_shape(context, index, d) over d from 0 to
\* rt_input_dimension(context, index) - 1; likewise for the outputs.
C19_SizeIsProductOfShape ==
  call.op \in {"rt_input", "rt_output"}
    => call.size = ExtentProduct(call.shape, call.dimension)

\* C19 witness: the second input, of shape [2, 3], was queried: dimension 2,
\* extents 2 and 3, size 6.
C19_Witness ==
  /\ call.op = "rt_input" /\ call.index = 1
  /\ shape[InputVariable(1)] = <<2, 3>>
  /\ call.dimension = 2
  /\ call.shape[0] = 2 /\ call.shape[1] = 3
  /\ call.size = 6

C21_ConvolutionRouting ==
  /\ call.op = "allocate"
       => /\ call.helper.func = "allocate_convolution_local_context_common"
          /\ call.helper.rec = call.rec
          /\ call.helper.args = [x |-> 0, weight |-> 1, bias |-> 2,
                                 alpha |-> 0 - 1, y0 |-> 0]
          /\ call.status = call.helper.status
          /\ ret[call.rec] = call.helper.status
  /\ call.op = "free"
       => /\ call.helper.func = "free_convolution_local_context_common"
          /\ call.helper.rec = call.rec
          /\ call.status = call.helper.status

\* C21 witness: the helper, called with the five slots on a record with two
\* inputs and one output, failed with MALLOC, and allocate returned MALLOC.
C21_Witness ==
  /\ call.op = "allocate" /\ call.rec = 1
  /\ num_of_inputs[1] = 2 /\ num_of_outputs[1] = 1
  /\ call.helper.args.weight = 1 /\ call.helper.args.alpha = 0 - 1
  /\ call.helper.status = RT_FUNCTION_ERROR_MALLOC
  /\ call.status = RT_FUNCTION_ERROR_MALLOC
  /\ context_private[1] = NULL

\* C22: exec_sum_pooling makes one call of the shared pooling kernel, on the
\* same record and context, with the private context held in the record's
\* context and with the sum reducer calc_sum, on every invocation, and returns
\* the kernel's status unchanged.
C22_SumPoolingKernel ==
  call.op = "exec"
    => /\ Len(call.invoked) = 1
       /\ call.invoked[1].func = "exec_pooling"
       /\ call.invoked[1].rec = call.rec
       /\ call.invoked[1].context = local_context[call.rec]
       /\ call.invoked[1].private = context_private[call.rec]
       /\ call.invoked[1].reducer = "calc_sum"
       /\ call.status = call.invoked[1].status

\* C22 witness: in the second forward pass exec_sum_pooling ran the kernel on
\* the second record with calc_sum and the private context its allocate
\* stored, and returned the kernel's INVALID_SHAPE.
C22_Witness ==
  /\ call.op = "exec" /\ call.rec = 2 /\ pass = 1
  /\ context_private[2] \in live /\ context_private[2] # context_private[1]
  /\ call.invoked[1].private = context_private[2]
  /\ call.invoked[1].reducer = "calc_sum"
  /\ call.invoked[1].status = RT_FUNCTION_ERROR_INVALID_SHAPE
  /\ call.status = RT_FUNCTION_ERROR_INVALID_SHAPE

\* ------------------- calls that break the at-most-once contract of a record
\* free_relu_local_context(f) a second time on a record already freed: free is
\* handed a released address, and either returns or stops the process.
CallFreeAgain(r) ==
  /\ phase = "calls"
  /\ ret[r] = RT_FUNCTION_ERROR_NOERROR
  /\ local_context[r] # NULL
  /\ local_context[r] \notin live
  /\ nfree[local_context[r]] = 1
  /\ \/ /\ free_relu_local_context(r)
        /\ phase' = phase
     \/ /\ Free(local_context[r])
        /\ Return("free", r, Crashed)
        /\ ShapeCalcs(0)
        /\ UNCHANGED local_context
        /\ phase' = "done"
  /\ UNCHANGED <<varsVariables, varsRecord, mem, pos, pass, ret,
                 varsObserved, context_private>>

\* allocate_relu_local_context(f) again on a record that is Ready.
CallAllocateAgain(r) ==
  /\ phase = "calls"
  /\ ret[r] = RT_FUNCTION_ERROR_NOERROR
  /\ local_context[r] \in live
  /\ allocate_relu_local_context(r)
  /\ ret' = [ret EXCEPT ![r] = call'.status]
  /\ UNCHANGED <<varsVariables, varsRecord, mem, phase, pos, pass,
                 varsObserved, context_private>>

NextMisuse ==
  \/ CallAllocate(1)
  \/ CallExec(1)
  \/ CallCalcScalar(1)
  \/ CallFree(1)
  \/ CallFreeAgain(1)
  \/ CallAllocateAgain(1)

SpecMisuse == InitCalls /\ [][NextMisuse]_vars

\* The step is a call of free_relu_local_context on record r.
FreeStep(r) == call'.op = "free" /\ call'.rec = r

\* C23: free_relu_local_context hands the record's private context to free,
\* returns NOERROR and leaves local_context as it was, holding the released
\* address; a second free on the record therefore releases the same context a
\* second time (where free may stop the process instead of returning).
C23_FreeKeepsPointer ==
  [][\A r \in Recs :
       FreeStep(r)
         => LET p == local_context[r]
            IN /\ local_context' = local_context
               /\ live' = live \ {p}
               /\ nfree' = [a \in Addrs |->
                              IF a = p THEN nfree[a] + 1 ELSE nfree[a]]
               /\ nalloc' = nalloc /\ priv' = priv /\ mem' = mem
               /\ p \in live => call'.status = RT_FUNCTION_ERROR_NOERROR
               /\ call'.status \in {RT_FUNCTION_ERROR_NOERROR, Crashed}]_vars

\* C23 witness: the record was freed twice: its local_context still holds the
\* address, which is not live and was released two times, and the second free
\* returned NOERROR.
C23_Witness ==
  /\ Returned("free", 1, RT_FUNCTION_ERROR_NOERROR)
  /\ local_context[1] # NULL
  /\ local_context[1] \notin live
  /\ nfree[local_context[1]] = 2

\* The step is a call of allocate_relu_local_context on record r.
AllocateStep(r) == call'.op = "allocate" /\ call'.rec = r

\* C27: allocate_relu_local_context does not look at the record's state: a
\* successful allocate on a record that is Ready allocates one more private
\* context and overwrites local_context with it, the first context staying
\* allocated; the free that follows releases the second one only, so exactly
\* one private context, no longer referenced by the record, remains allocated.
C27_SecondAllocateLeaks ==
  [][\A r \in Recs :
       /\ (AllocateStep(r) /\ local_context[r] \in live
             /\ call'.status = RT_FUNCTION_ERROR_NOERROR)
            => /\ nalloc' = nalloc + 1
               /\ local_context'[r] = nalloc'
               /\ local_context'[r] # local_context[r]
               /\ live' = live \cup {local_context'[r]}
               /\ local_context[r] \in live'
               /\ nfree' = nfree
       /\ (FreeStep(r) /\ local_context[r] \in live /\ Cardinality(live) = 2)
            => /\ Cardinality(live') = 1
               /\ local_context'[r] \notin live'
               /\ \A a \in live' : nfree'[a] = 0]_vars

\* C27 witness: after two successful allocates and one free on the record the
\* first context is still allocated and the record points at the released
\* second one.
C27_Witness ==
  /\ Returned("free", 1, RT_FUNCTION_ERROR_NOERROR)
  /\ nalloc = 2 /\ live = {1}
  /\ local_context[1] = 2
  /\ nfree[1] = 0 /\ nfree[2] = 1

\* C24: exec_relu changes only the elements 0 .. output_size - 1 of the output
\* buffer: every other element of every buffer, so the input buffer when it is
\* another buffer, is unchanged, and so are the private contexts' fields, the
\* records' local_context, the variables' shapes and data pointers and the
\* heap; the loop body runs exactly output_size times.
C24_ExecReluFrame ==
  [][\A r \in Recs :
       (call'.op = "exec" /\ call'.rec = r)
         => LET private == priv[local_context[r]]
            IN /\ \A b \in Bufs, i \in 1..BufCap :
                    (b # private.output \/ i > private.output_size)
                      => mem'[b][i] = mem[b][i]
               /\ private.input # private.output
                    => mem'[private.input] = mem[private.input]
               /\ priv' = priv
               /\ local_context' = local_context
               /\ shape' = shape /\ data' = data
               /\ live' = live /\ nalloc' = nalloc /\ nfree' = nfree
               /\ relu_loop_iterations(0, private.output_size)
                    = private.output_size]_vars

\* C24 witness: exec_relu ran from a buffer holding <<-1, 1>> into another
\* buffer over one element: the input is as it was and the output's second
\* element was not written.
C24_Witness ==
  /\ Returned("exec", 1, RT_FUNCTION_ERROR_NOERROR)
  /\ priv[local_context[1]].input # priv[local_context[1]].output
  /\ priv[local_context[1]].output_size = 1
  /\ mem[priv[local_context[1]].input] = <<0 - 1, 1>>
  /\ mem[priv[local_context[1]].output] = <<0, 0>>
  /\ nexec[1] = 1

\* --------------------------------- a variable rebound after the allocation
\* The user, once, points a variable at another buffer or gives it another
\* shape while the record is Ready.
Rebind ==
  /\ phase = "calls"
  /\ pass = 0
  /\ ret[1] = RT_FUNCTION_ERROR_NOERROR
  /\ local_context[1] \in live
  /\ \E v \in Vars, b \in Bufs, s \in Shapes :
       /\ data' = [data EXCEPT ![v] = b]
       /\ shape' = [shape EXCEPT ![v] = s]
       /\ <<data', shape'>> # <<data, shape>>
  /\ pass' = 1
  /\ call' = [op |-> "rebind", rec |-> 0, status |-> RT_FUNCTION_ERROR_NOERROR]
  /\ ShapeCalcs(0)
  /\ UNCHANGED <<varsRecord, mem, local_context, varsHeap, phase, pos, ret,
                 varsObserved, context_private>>

NextRebind ==
  \/ CallAllocate(1)
  \/ Rebind
  \/ CallExec(1)
  \/ CallCalcScalar(1)

SpecRebind == InitCalls /\ [][NextRebind]_vars

\* C25: the private context is written by allocate only, so a rebinding after
\* the allocation leaves the cached buffers and count as they were bound; a
\* later exec_relu rectifies the cached input buffer into the cached output
\* buffer over the cached count, whatever the record's variables say by then,
\* whereas calc_scalar works on the buffers and the count that the record's
\* variables give at the call.
C25_CachedBindings ==
  [][\A r \in Recs :
       /\ call'.op # "allocate"
            => (priv' = priv /\ local_context' = local_context)
       /\ (AllocateStep(r) /\ call'.status = RT_FUNCTION_ERROR_NOERROR)
            => priv'[local_context'[r]]
                 = [input       |-> data[inputs[r][1]],
                    input_size  |-> DimProduct(shape[inputs[r][1]],
                                               Len(shape[inputs[r][1]])),
                    output      |-> data[outputs[r][1]],
                    output_size |-> DimProduct(shape[outputs[r][1]],
                                               Len(shape[outputs[r][1]]))]
       /\ (call'.op = "exec" /\ call'.rec = r)
            => LET private == priv[local_context[r]]
               IN /\ \A i \in 1..private.output_size :
                       mem'[private.output][i]
                         = Rectified(mem[private.input][i])
                  /\ \A b \in Bufs, i \in 1..BufCap :
                       (b # private.output \/ i > private.output_size)
                         => mem'[b][i] = mem[b][i]
       /\ CalcScalarStep(r)
            => LET n == DimProduct(shape[outputs[r][1]],
                                   Len(shape[outputs[r][1]]))
               IN /\ \A i \in 1..n :
                       mem'[data[outputs[r][1]]][i]
                         = calc_func(call'.func,
                                     mem[data[inputs[r][1]]][i], call'.value)
                  /\ \A b \in Bufs, i \in 1..BufCap :
                       (b # data[outputs[r][1]] \/ i > n)
                         => mem'[b][i] = mem[b][i]]_vars

\* C25 witness: the record was allocated in place on a [2] variable, which was
\* then pointed at the other buffer and given the shape []; exec_relu still
\* rectified both elements of the first buffer.
C25_Witness ==
  /\ Returned("exec", 1, RT_FUNCTION_ERROR_NOERROR)
  /\ pass = 1
  /\ inputs[1] = outputs[1]
  /\ priv[local_context[1]].output # data[outputs[1][1]]
  /\ priv[local_context[1]].output_size = 2
  /\ shape[outputs[1][1]] = << >>
  /\ supplied[priv[local_context[1]].output] = <<0 - 1, 0 - 1>>
  /\ mem[priv[local_context[1]].output] = <<0, 0>>
  /\ mem[data[outputs[1][1]]] = <<0, 0>>

\* C26: calc_scalar is alias-safe: when the first input and the first output
\* are the same buffer, the buffer's first n elements after the call are those
\* the loop leaves in a separate output buffer when run on the same input
\* contents, and those are calc_func(x, value) of the elements x before the
\* call.
C26_AliasSafe ==
  [][\A r \in Recs :
       (CalcScalarStep(r) /\ InputBuf(r) = OutputBuf(r))
         => LET b == InputBuf(r)
                n == OutputSize(r)
                other == CHOOSE o \in Bufs : o # b
                separate == calc_scalar_loop(mem, b, other, call'.func,
                                             call'.value, 0, n)
            IN /\ Contents(mem', b, n) = Contents(separate, other, n)
               /\ Contents(separate, b, n) = Contents(mem, b, n)
               /\ \A i \in 1..n :
                    separate[other][i]
                      = calc_func(call'.func, mem[b][i], call'.value)]_vars

\* C26 witness: calc_scalar subtracted 2 in place from a buffer holding
\* <<1, -1>>, leaving <<-1, -3>>.
C26_Witness ==
  /\ call.op = "calc_scalar" /\ call.rec = 1
  /\ call.func = "calc_sub" /\ call.value = 2
  /\ InputBuf(1) = OutputBuf(1) /\ OutputSize(1) = 2
  /\ supplied[InputBuf(1)] = <<1, 0 - 1>>
  /\ mem[OutputBuf(1)] = <<0 - 1, 0 - 3>>
  /\ nexec[1] = 1

====
